---- MODULE Spec2Model ----
(***************************************************************************)
(* Model of the domain classification pipeline of src/main.mjs: the        *)
(* synchronous normalisation / exclusion / sort stages followed by the     *)
(* concurrent per-record enrichment chains joined by Promise.all.          *)
(*                                                                         *)
(* JavaScript strings on which the code computes (Domain, Parent, TLD,     *)
(* CNAME targets, CDN, content-type, HTTPBody) are sequences of one-       *)
(* character strings.  A record (row) is a function whose DOMAIN is the    *)
(* set of properties the object currently has.                             *)
(***************************************************************************)
EXTENDS Integers, Sequences, FiniteSets, TLC

VARIABLES csvData, stage, idx, sub, pc, dnsQueries, httpRequests, cleaned, original, origin,
          received

vars == <<csvData, stage, idx, sub, pc, dnsQueries, httpRequests, cleaned, original, origin,
          received>>

(***************************************************************************)
(* Bounds of the model.                                                    *)
(***************************************************************************)
\* rows of the input after the dropped first line (Spec)
MaxRows == 2
\* length of the enumerated Domain strings (SpecNorm)
MaxLen == 3
\* records in one answer of the resolver (SpecCDN)
MaxRecords == 2
\* fingerprint fragments a response body is made of (SpecHTML)
MaxFragments == 2

(***************************************************************************)
(* JavaScript values and string primitives.                                *)
(***************************************************************************)
Null == <<"null">>
Undefined == <<"undefined">>

Falsy(v) == v \in {Null, Undefined, <<>>}

Has(row, f) == f \in DOMAIN row

Put(row, f, v) == [x \in (DOMAIN row) \cup {f} |-> IF x = f THEN v ELSE row[x]]

\* a delete that is forgotten
DeleteNothing(row, f) == row

Delete(row, f) == [x \in (DOMAIN row) \ {f} |-> row[x]]

\* row.f where a missing property reads as undefined
Get(row, f) == IF Has(row, f) THEN row[f] ELSE Undefined

endsWith(s, suffix) ==
  /\ Len(s) >= Len(suffix)
  /\ SubSeq(s, Len(s) - Len(suffix) + 1, Len(s)) = suffix

startsWith(s, prefix) ==
  /\ Len(s) >= Len(prefix)
  /\ SubSeq(s, 1, Len(prefix)) = prefix

\* String.prototype.indexOf for a one-character needle: 0-based, -1 when absent
indexOf(s, c) ==
  IF \E i \in 1..Len(s) : s[i] = c
  THEN (CHOOSE i \in 1..Len(s) : s[i] = c /\ \A j \in 1..(i - 1) : s[j] # c) - 1
  ELSE -1

\* s.slice(0, -1)
sliceDropLast(s) == SubSeq(s, 1, Len(s) - 1)

\* s.split(c): the sequence of the parts between the separators
RECURSIVE split(_, _)
split(s, c) ==
  IF indexOf(s, c) = -1 THEN <<s>>
  ELSE <<SubSeq(s, 1, indexOf(s, c))>> \o split(SubSeq(s, indexOf(s, c) + 2, Len(s)), c)

\* parts.join(c)
RECURSIVE join(_, _)
join(parts, c) ==
  IF parts = <<>> THEN <<>>
  ELSE IF Len(parts) = 1 THEN parts[1]
  ELSE parts[1] \o <<c>> \o join(Tail(parts), c)

Digits == {"0","1","2","3","4","5","6","7","8","9"}
LowerHex == Digits \cup {"a","b","c","d","e","f"}
Hex == LowerHex \cup {"A","B","C","D","E","F"}
Lower ==
  {"a","b","c","d","e","f","g","h","i","j","k","l","m",
   "n","o","p","q","r","s","t","u","v","w","x","y","z"}
Upper ==
  {"A","B","C","D","E","F","G","H","I","J","K","L","M",
   "N","O","P","Q","R","S","T","U","V","W","X","Y","Z"}


(***************************************************************************)
(* Static tables of the program.                                           *)
(***************************************************************************)
PortComment == "Cloudflare includes ports that are non-productive, we exclude these domains"
PathComment == "Removed path from domain"
DevComment == "Development domain excluded"
IPComment == "IP address excluded"

devParents ==
  << <<"w","o","r","k","e","r","s",".","d","e","v">>,
    <<"w","e","b",".","p","f","i","z","e","r">>,
    <<"t","e","m","p","l","a","t","e","s",".","p","f","i","z","e","r">>,
    <<"o","a","s","t","i","f","y",".","c","o","m">>,
    <<"n","g","r","o","k","-","f","r","e","e",".","a","p","p">>,
    <<"i","m","p","a","c","t","f","u","l","-","1",".","s","i","t","e">>,
    <<"i","m","p","a","c","t","f","u","l","-","2",".","s","i","t","e">>,
    <<"i","m","p","a","c","t","f","u","l","-","3",".","s","i","t","e">>,
    <<"i","m","p","a","c","t","f","u","l","-","4",".","s","i","t","e">>,
    <<"i","m","p","a","c","t","f","u","l","-","5",".","s","i","t","e">>,
    <<"h","l","x","-","1",".","p","a","g","e">>,
    <<"h","l","x","-","4",".","p","a","g","e">>,
    <<"h","e","l","i","x","3",".","d","e","v">>,
    <<"h","e","l","i","x","3",".","p","a","g","e">>,
    <<"g","i","t","h","u","b",".","c","o","m">>,
    <<"g","i","t","h","u","b",".","d","e","v">>,
    <<"f","r","a","n","k","l","i","n",".","p","f","i","z","e","r">>,
    <<"f","a","s","t","l","y","d","e","m","o",".","n","e","t">>,
    <<"f","a","s","t","l","y",".","n","e","t">>,
    <<"f","a","s","t","l","y","-","a","e","m",".","p","a","g","e">>,
    <<"c","l","o","u","d","f","r","o","n","t",".","n","e","t">>,
    <<"b","i","n","g",".","c","o","m">>,
    <<"a","e","m",".","p","a","g","e">>,
    <<"a","e","m",".","r","e","v","i","e","w","s">>,
    <<"a","e","m",".","l","i","v","e">>,
    <<"a","d","o","b","e","i","o","-","s","t","a","t","i","c",".","n","e","t">>,
    <<"a","d","o","b","e","a","e","m","c","l","o","u","d",".","c","o","m">>,
    <<"a","d","o","b","e",".","p","f","i","z","e","r">>,
    <<"a","d","o","b","e",".","n","e","t">>,
    <<"a","z","u","r","e","f","d",".","n","e","t">>,
    <<"u","s","-","1",".","m","a","g","e","n","t","o","s","i","t","e",".","c","l","o","u","d">>,
    <<"u","s","-","2",".","m","a","g","e","n","t","o","s","i","t","e",".","c","l","o","u","d">>,
    <<"u","s","-","3",".","m","a","g","e","n","t","o","s","i","t","e",".","c","l","o","u","d">>,
    <<"u","s","-","4",".","m","a","g","e","n","t","o","s","i","t","e",".","c","l","o","u","d">> >>

cdns ==
  << [pattern |-> <<".","c","d","n",".","c","l","o","u","d","f","l","a","r","e",".","n","e","t">>,
      cdn |-> <<"C","l","o","u","d","f","l","a","r","e">>],
     [pattern |-> <<".","e","d","g","e","k","e","y",".","n","e","t">>,
      cdn |-> <<"A","k","a","m","a","i">>],
     [pattern |-> <<".","e","d","g","e","s","u","i","t","e",".","n","e","t">>,
      cdn |-> <<"A","k","a","m","a","i">>],
     [pattern |-> <<".","m","a","g","e","n","t","o","c","l","o","u","d",".","m","a","p",".","f","a","s","t","l","y",".","n","e","t">>,
      cdn |-> <<"A","d","o","b","e"," ","C","o","m","m","e","r","c","e">>],
     [pattern |-> <<".","f","a","s","t","l","y",".","n","e","t">>,
      cdn |-> <<"F","a","s","t","l","y">>],
     [pattern |-> <<".","a","d","o","b","e","a","e","m","c","l","o","u","d",".","c","o","m">>,
      cdn |-> <<"A","E","M"," ","C","l","o","u","d"," ","S","e","r","v","i","c","e">>],
     [pattern |-> <<".","c","l","o","u","d","f","r","o","n","t",".","n","e","t">>,
      cdn |-> <<"C","l","o","u","d","f","r","o","n","t">>],
     [pattern |-> <<".","a","z","u","r","e","f","d",".","n","e","t">>,
      cdn |-> <<"A","z","u","r","e"," ","F","r","o","n","t"," ","D","o","o","r">>],
     [pattern |-> <<".","a","z","u","r","e","e","d","g","e",".","n","e","t">>,
      cdn |-> <<"A","z","u","r","e"," ","F","r","o","n","t"," ","D","o","o","r">>],
     [pattern |-> <<".","g","a","m","m","a","c","d","n",".","n","e","t">>,
      cdn |-> <<"E","d","g","i","o">>],
     [pattern |-> <<".","a","b","b","o","t","t","a","p","p","s",".","n","e","t">>,
      cdn |-> <<"A","b","b","o","t","t"," ","A","p","p","s">>],
     [pattern |-> <<".","c","d","n","g","s","l","b",".","c","o","m">>,
      cdn |-> <<"A","l","i","b","a","b","a"," ","C","l","o","u","d">>],
     [pattern |-> <<".","i","n","d","u","s","c","d","n",".","c","o","m">>,
      cdn |-> <<"I","n","d","u","s"," ","C","D","N">>],
     [pattern |-> <<".","i","m","p","e","r","v","a","d","n","s",".","n","e","t">>,
      cdn |-> <<"I","m","p","e","r","v","a">>],
     [pattern |-> <<".","r","b","z","d","n","s",".","c","o","m">>,
      cdn |-> <<"R","a","c","k","s","p","a","c","e">>],
     [pattern |-> <<".","k","x","c","d","n",".","c","o","m">>,
      cdn |-> <<"K","e","y","C","D","N">>],
     [pattern |-> <<".","c","1","0","r",".","f","a","c","e","b","o","o","k",".","c","o","m">>,
      cdn |-> <<"F","a","c","e","b","o","o","k">>],
     [pattern |-> <<".","r","a","d","w","a","r","e","c","l","o","u","d",".","n","e","t">>,
      cdn |-> <<"R","a","d","w","a","r","e"," ","C","l","o","u","d">>],
     [pattern |-> <<".","e","d","g","e","k","e","y","-","s","t","a","g","i","n","g",".","n","e","t">>,
      cdn |-> <<"A","k","a","m","a","i">>],
     [pattern |-> <<".","a","z","u","r","e","w","e","b","s","i","t","e","s",".","n","e","t">>,
      cdn |-> <<"A","z","u","r","e"," ","W","e","b"," ","A","p","p","s">>],
     [pattern |-> <<".","x",".","i","n","c","a","p","d","n","s",".","n","e","t">>,
      cdn |-> <<"I","n","c","a","p","s","u","l","a">>],
     [pattern |-> <<".","o","n","e","l","i","n","k","-","t","r","a","n","s","l","a","t","i","o","n","s",".","c","o","m">>,
      cdn |-> <<"O","n","e","L","i","n","k">>],
     [pattern |-> <<".","t","r","a","f","f","i","c","m","a","n","a","g","e","r",".","n","e","t">>,
      cdn |-> <<"A","z","u","r","e">>],
     [pattern |-> <<".","t","r","a","f","f","i","c","d","i","r","e","c","t","o","r",".","p","f","i","z","e","r",".","n","e","t">>,
      cdn |-> <<"P","f","i","z","e","r"," ","T","r","a","f","f","i","c"," ","D","i","r","e","c","t","o","r">>],
     [pattern |-> <<".","w","p","e","n","g","i","n","e",".","c","o","m">>,
      cdn |-> <<"W","P"," ","E","n","g","i","n","e">>],
     [pattern |-> <<".","o","m","i","c","r","o","n","c","d","n",".","n","e","t">>,
      cdn |-> <<"O","m","i","c","r","o","n"," ","C","D","N">>],
     [pattern |-> <<".","v","e","r","c","e","l","-","d","n","s",".","c","o","m">>,
      cdn |-> <<"V","e","r","c","e","l">>],
     [pattern |-> <<".","n","u","c","d","n",".","n","e","t">>,
      cdn |-> <<"N","u","C","D","N">>],
     [pattern |-> <<".","l","i","g","h","t","h","o","u","s","e","l","a","b","s",".","e","u">>,
      cdn |-> <<"L","i","g","h","t","h","o","u","s","e"," ","L","a","b","s">>],
     [pattern |-> <<".","g","i","t","h","u","b",".","i","o">>,
      cdn |-> <<"G","i","t","H","u","b"," ","P","a","g","e","s">>] >>

(***************************************************************************)
(* Regular expressions are matched by the set of positions (numbers of     *)
(* characters consumed) a sub-pattern can end at, started from each        *)
(* position of a set; an anchored pattern matches when Len(s) is among     *)
(* the end positions.                                                      *)
(***************************************************************************)
max(a, b) == IF a >= b THEN a ELSE b

\* [C]{lo,hi}
classRun(s, P, C, lo, hi) ==
  UNION { { q \in (p + lo)..(p + hi) :
              q <= Len(s) /\ \A k \in (p + 1)..q : s[k] \in C } : p \in P }

\* a literal string
lit(s, P, str) ==
  { p + Len(str) : p \in { p \in P : /\ p + Len(str) <= Len(s)
                                     /\ SubSeq(s, p + 1, p + Len(str)) = str } }

\* (?:25[0-5]|2[0-4][0-9]|[01]?[0-9][0-9]?)
octet4(s, P) ==
  classRun(s, lit(s, P, <<"2","5">>), {"0","1","2","3","4","5"}, 1, 1)
    \cup classRun(s, classRun(s, lit(s, P, <<"2">>), {"0","1","2","3","4"}, 1, 1), Digits, 1, 1)
    \cup classRun(s, classRun(s, classRun(s, P, {"0","1"}, 0, 1), Digits, 1, 1), Digits, 0, 1)

\* (?:octet\.){3}octet, anchored
ipv4Regex(s) ==
  LET dot(P) == lit(s, octet4(s, P), <<".">>)
  IN Len(s) \in octet4(s, dot(dot(dot({0}))))

\* ([0-9a-fA-F]{1,4}:){lo,hi}
RECURSIVE hexColon(_, _, _, _)
hexColon(s, P, lo, hi) ==
  IF hi = 0 \/ P = {} THEN (IF lo = 0 THEN P ELSE {})
  ELSE (IF lo = 0 THEN P ELSE {})
         \cup hexColon(s, lit(s, classRun(s, P, Hex, 1, 4), <<":">>), max(lo - 1, 0), hi - 1)

\* (:[0-9a-fA-F]{m,4}){lo,hi}
RECURSIVE colonHex(_, _, _, _, _)
colonHex(s, P, m, lo, hi) ==
  IF hi = 0 \/ P = {} THEN (IF lo = 0 THEN P ELSE {})
  ELSE (IF lo = 0 THEN P ELSE {})
         \cup colonHex(s, classRun(s, lit(s, P, <<":">>), Hex, m, 4), m, max(lo - 1, 0), hi - 1)

\* (25[0-5]|(2[0-4]|1{0,1}[0-9]){0,1}[0-9])
octet6(s, P) ==
  classRun(s, lit(s, P, <<"2","5">>), {"0","1","2","3","4","5"}, 1, 1)
    \cup classRun(s,
           P \cup classRun(s, lit(s, P, <<"2">>), {"0","1","2","3","4"}, 1, 1)
             \cup classRun(s, classRun(s, P, {"1"}, 0, 1), Digits, 1, 1),
           Digits, 1, 1)

\* (octet\.){3,3}octet
dotted6(s, P) ==
  LET dot(Q) == lit(s, octet6(s, Q), <<".">>)
  IN octet6(s, dot(dot(dot(P))))

ipv6Regex(s) ==
  LET hc(lo, hi) == hexColon(s, {0}, lo, hi)
      h(P) == classRun(s, P, Hex, 1, 4)
      c(P) == lit(s, P, <<":">>)
      ch(P, lo, hi) == colonHex(s, P, 1, lo, hi)
      ffff(P) ==
        P \cup c(LET f == lit(s, P, <<"f","f","f","f">>)
                 IN f \cup classRun(s, c(f), {"0"}, 1, 4))
  IN Len(s) \in
       h(hc(7, 7))
         \cup c(hc(1, 7))
         \cup h(c(hc(1, 6)))
         \cup ch(hc(1, 5), 1, 2)
         \cup ch(hc(1, 4), 1, 3)
         \cup ch(hc(1, 3), 1, 4)
         \cup ch(hc(1, 2), 1, 5)
         \cup ch(c(h({0})), 1, 6)
         \cup (LET P == c({0}) IN ch(P, 1, 7) \cup c(P))
         \cup classRun(s,
                lit(s, colonHex(s, lit(s, {0}, <<"f","e","8","0",":">>), 0, 0, 4), <<"%">>),
                Digits \cup Lower \cup Upper, 1, Len(s))
         \cup dotted6(s, ffff(lit(s, {0}, <<":",":">>)))
         \cup dotted6(s, c(hc(1, 4)))

(***************************************************************************)
(* The synchronous stages.                                                 *)
(***************************************************************************)
Excluded(row) == Has(row, "Source") /\ row["Source"] = "Excluded"

cleanupTrailingDot(row) ==
  IF endsWith(row["Domain"], <<".">>)
  THEN Put(row, "Domain", sliceDropLast(row["Domain"]))
  ELSE row

\* first statement of flagPorts
portCheck(row) ==
  IF indexOf(row["Domain"], ":") > -1
  THEN Put(Put(row, "Source", "Excluded"), "Comment", PortComment)
  ELSE row

\* the path cut at the last '/' instead of the first
pathCheckLast(row) ==
  IF indexOf(row["Domain"], "/") > -1
  THEN Put(Put(row, "Domain",
               join(sliceDropLast(split(row["Domain"], "/")), "/")),
           "Comment", PathComment)
  ELSE row

\* second statement of flagPorts
pathCheck(row) ==
  IF indexOf(row["Domain"], "/") > -1
  THEN Put(Put(row, "Domain", split(row["Domain"], "/")[1]), "Comment", PathComment)
  ELSE row

flagPorts(row) == pathCheck(portCheck(row))

flagIP(row) ==
  IF Excluded(row) THEN row
  ELSE IF ipv4Regex(row["Domain"]) \/ ipv6Regex(row["Domain"])
       THEN Put(Put(row, "Source", "Excluded"), "Comment", IPComment)
       ELSE row

(***************************************************************************)
(* psl.parse: validation of the labels, then the longest rule of the       *)
(* public suffix list that is a suffix of the domain (an excerpt of the    *)
(* list: the rules that apply to the domains of the model), with the       *)
(* default rule "*" when none applies.                                     *)
(***************************************************************************)
PublicSuffixes ==
  { <<"c","o","m">>, <<"n","e","t">>, <<"d","e","v">>, <<"u","k">>,
    <<"c","o",".","u","k">>,
    <<"w","o","r","k","e","r","s",".","d","e","v">> }

pslValidLabel(l) ==
  /\ Len(l) >= 1
  /\ Len(l) <= 63
  /\ l[1] # "-"
  /\ l[Len(l)] # "-"
  /\ \A k \in 1..Len(l) : l[k] \in Lower \cup Digits \cup {"-"}

pslError(domain) ==
  \/ Len(domain) < 1
  \/ Len(domain) > 255
  \/ \E k \in 1..Len(split(domain, ".")) : ~pslValidLabel(split(domain, ".")[k])

pslFindRule(domain) ==
  LET matching == { r \in PublicSuffixes : endsWith(domain, <<".">> \o r) \/ domain = r }
  IN IF matching = {} THEN <<>>
     ELSE CHOOSE r \in matching : \A q \in matching : Len(q) <= Len(r)

pslParse(input) ==
  LET domain == IF input # <<>> /\ input[Len(input)] = "." THEN sliceDropLast(input) ELSE input
      parts == split(domain, ".")
      rule == pslFindRule(domain)
      tldParts == split(rule, ".")
      privateParts == SubSeq(parts, 1, Len(parts) - Len(tldParts))
  IN IF pslError(domain) THEN [tld |-> Undefined, domain |-> Undefined]
     ELSE IF parts[Len(parts)] = <<"l","o","c","a","l">> THEN [tld |-> Null, domain |-> Null]
     ELSE IF rule = <<>>
          THEN IF Len(parts) < 2 THEN [tld |-> Null, domain |-> Null]
               ELSE [tld |-> parts[Len(parts)],
                     domain |-> join(SubSeq(parts, Len(parts) - 1, Len(parts)), ".")]
          ELSE IF privateParts = <<>> THEN [tld |-> rule, domain |-> Null]
               ELSE [tld |-> rule,
                     domain |-> join(<<privateParts[Len(privateParts)], rule>>, ".")]

\* flagParent without its early return for excluded rows
flagParentUnguarded(row) ==
  Put(Put(row, "Parent", pslParse(row["Domain"]).domain),
      "TLD", pslParse(row["Domain"]).tld)

flagParent(row) ==
  IF Excluded(row) THEN row
  ELSE Put(Put(row, "Parent", pslParse(row["Domain"]).domain),
           "TLD", pslParse(row["Domain"]).tld)

includes(arr, v) == \E k \in 1..Len(arr) : arr[k] = v

flagDev(row) ==
  IF includes(devParents, Get(row, "Parent")) \/ includes(devParents, Get(row, "TLD"))
  THEN Put(Put(row, "Source", "Excluded"), "Comment", DevComment)
  ELSE row

(***************************************************************************)
(* The sort: String.prototype.localeCompare on the characters a Parent can *)
(* hold (punctuation before digits before letters), and the stable         *)
(* Array.prototype.sort under the comparator of the pipeline.              *)
(***************************************************************************)
Collation ==
  <<"-", ".", "0","1","2","3","4","5","6","7","8","9",
    "a","b","c","d","e","f","g","h","i","j","k","l","m",
    "n","o","p","q","r","s","t","u","v","w","x","y","z">>

rank(c) == CHOOSE k \in 1..Len(Collation) : Collation[k] = c

RECURSIVE localeCompare(_, _)
localeCompare(l, r) ==
  IF l = <<>> /\ r = <<>> THEN 0
  ELSE IF l = <<>> THEN -1
  ELSE IF r = <<>> THEN 1
  ELSE IF rank(l[1]) < rank(r[1]) THEN -1
  ELSE IF rank(l[1]) > rank(r[1]) THEN 1
  ELSE localeCompare(Tail(l), Tail(r))

\* the comparator with the two absent-Parent answers swapped
compareParentAbsentFirst(l, r) ==
  IF Falsy(Get(l, "Parent")) /\ Falsy(Get(r, "Parent")) THEN 0
  ELSE IF Falsy(Get(l, "Parent")) THEN -1
  ELSE IF Falsy(Get(r, "Parent")) THEN 1
  ELSE localeCompare(l["Parent"], r["Parent"])

compareParent(l, r) ==
  IF Falsy(Get(l, "Parent")) /\ Falsy(Get(r, "Parent")) THEN 0
  ELSE IF Falsy(Get(l, "Parent")) THEN 1
  ELSE IF Falsy(Get(r, "Parent")) THEN -1
  ELSE localeCompare(l["Parent"], r["Parent"])

\* the position x takes in a sorted run: after the elements that do not
\* compare greater
insertAt(arr, order, x) ==
  Cardinality({ k \in 1..Len(order) :
                  \A j \in 1..k : compareParent(arr[order[j]], arr[x]) <= 0 })

\* the indices of arr in the order the stable sort leaves them
RECURSIVE sortOrder(_)
sortOrder(arr) ==
  IF arr = <<>> THEN <<>>
  ELSE LET order == sortOrder(sliceDropLast(arr))
           n == insertAt(arr, order, Len(arr))
       IN SubSeq(order, 1, n) \o <<Len(arr)>> \o SubSeq(order, n + 1, Len(order))

sort(arr) == [k \in 1..Len(arr) |-> arr[sortOrder(arr)[k]]]

(***************************************************************************)
(* new URL("https://" + Domain): the host parser of the URL standard on    *)
(* the characters a Domain can hold when it reaches enrichHTTPS (no ':'    *)
(* and no '/': such a record is excluded or truncated): an empty host and  *)
(* a host that ends in a number but is no IPv4 address make it throw.      *)
(***************************************************************************)
HexSeqLower == <<"0","1","2","3","4","5","6","7","8","9","a","b","c","d","e","f">>
HexSeqUpper == <<"0","1","2","3","4","5","6","7","8","9","A","B","C","D","E","F">>
hexValue(c) == (CHOOSE k \in 1..Len(HexSeqLower) : HexSeqLower[k] = c \/ HexSeqUpper[k] = c) - 1

RECURSIVE radixNumber(_, _)
radixNumber(s, radix) ==
  IF s = <<>> THEN 0
  ELSE radixNumber(sliceDropLast(s), radix) * radix + hexValue(s[Len(s)])

allIn(s, C) == \A k \in 1..Len(s) : s[k] \in C

\* the IPv4 number parser; -1 is failure (the numbers of the model stay
\* below 256^4, the limit of a host of one part)
ipv4Number(part) ==
  IF part = <<>> THEN -1
  ELSE IF Len(part) >= 2 /\ part[1] = "0" /\ part[2] \in {"x", "X"}
       THEN IF allIn(SubSeq(part, 3, Len(part)), Hex)
            THEN radixNumber(SubSeq(part, 3, Len(part)), 16) ELSE -1
  ELSE IF Len(part) >= 2 /\ part[1] = "0"
       THEN IF allIn(Tail(part), {"0","1","2","3","4","5","6","7"})
            THEN radixNumber(Tail(part), 8) ELSE -1
  ELSE IF allIn(part, Digits) THEN radixNumber(part, 10) ELSE -1

hostParts(host) ==
  LET p == split(host, ".")
  IN IF p[Len(p)] = <<>> /\ Len(p) > 1 THEN sliceDropLast(p) ELSE p

endsInNumber(host) ==
  LET last == hostParts(host)[Len(hostParts(host))]
  IN (last # <<>> /\ allIn(last, Digits)) \/ ipv4Number(last) # -1

RECURSIVE pow256(_)
pow256(n) == IF n = 0 THEN 1 ELSE 256 * pow256(n - 1)

ipv4Parses(host) ==
  LET p == hostParts(host)
  IN /\ Len(p) <= 4
     /\ \A k \in 1..Len(p) : ipv4Number(p[k]) # -1
     /\ \A k \in 1..(Len(p) - 1) : ipv4Number(p[k]) <= 255
     /\ Len(p) > 1 => ipv4Number(p[Len(p)]) < pow256(5 - Len(p))

validURL(domain) ==
  /\ domain # <<>>
  /\ endsInNumber(domain) => ipv4Parses(domain)

(***************************************************************************)
(* flagCDN, on the record the awaited promise resolved to.                 *)
(***************************************************************************)
cnames(dns) == SelectSeq(dns, LAMBDA d : d.type = "CNAME")

\* cdns.find(cdn => value.endsWith(cdn.pattern)), then matchedCDN ? .cdn : null
matchedCDN(value) ==
  LET hits == { k \in 1..Len(cdns) : endsWith(value, cdns[k].pattern) }
  IN IF hits = {} THEN Null
     ELSE cdns[CHOOSE k \in hits : \A j \in hits : k <= j].cdn

\* the reduce without its "if (result) return result"
RECURSIVE reduceCDNLastWins(_, _)
reduceCDNLastWins(list, result) ==
  IF list = <<>> THEN result
  ELSE reduceCDNLastWins(Tail(list), matchedCDN(list[1].value))

RECURSIVE reduceCDN(_, _)
reduceCDN(list, result) ==
  IF list = <<>> THEN result
  ELSE reduceCDN(Tail(list),
                 IF ~Falsy(result) THEN result ELSE matchedCDN(list[1].value))

ServerCloudflare == <<"c","l","o","u","d","f","l","a","r","e">>
CDNCloudflare == <<"C","l","o","u","d","f","l","a","r","e">>
CDNDNSError == <<"D","N","S"," ","E","r","r","o","r">>
UnknownCDN == <<"U","n","k","n","o","w","n"," ","C","D","N"," ">>

\* the fallback to the first CNAME tried before the server header
flagCDNUnknownFirst(row) ==
  IF Excluded(row) THEN row
  ELSE IF ~Has(row, "DNS") THEN row
  ELSE LET cn == cnames(row["DNS"])
           r1 == Put(row, "CDN", reduceCDN(cn, Undefined))
           r2 == IF Falsy(r1["CDN"]) /\ Has(r1, "DNSError")
                 THEN Put(r1, "CDN", CDNDNSError)
                 ELSE IF Falsy(r1["CDN"]) /\ cn # <<>>
                      THEN Put(r1, "CDN", UnknownCDN \o cn[1].value)
                      ELSE r1
           r3 == IF /\ Falsy(r2["CDN"])
                    /\ Has(r2, "HTTPHeaders")
                    /\ Get(r2["HTTPHeaders"], "server") = ServerCloudflare
                 THEN Put(r2, "CDN", CDNCloudflare) ELSE r2
       IN Delete(r3, "DNS")

flagCDN(row) ==
  IF Excluded(row) THEN row
  ELSE IF ~Has(row, "DNS") THEN row
  ELSE LET cn == cnames(row["DNS"])
           r1 == Put(row, "CDN", reduceCDN(cn, Undefined))
           r2 == IF /\ Falsy(r1["CDN"])
                    /\ Has(r1, "HTTPHeaders")
                    /\ Get(r1["HTTPHeaders"], "server") = ServerCloudflare
                 THEN Put(r1, "CDN", CDNCloudflare) ELSE r1
           r3 == IF Falsy(r2["CDN"]) /\ Has(r2, "DNSError")
                 THEN Put(r2, "CDN", CDNDNSError)
                 ELSE IF Falsy(r2["CDN"]) /\ cn # <<>>
                      THEN Put(r2, "CDN", UnknownCDN \o cn[1].value)
                      ELSE r2
       IN Delete(r3, "DNS")

(***************************************************************************)
(* enrichHTML, on the record the awaited promise resolved to.              *)
(***************************************************************************)
LineTerminators == {"\n", "\r"}

\* /\/media_[a-f0-9]{40}/
matchMedia(body) ==
  \E p \in 0..Len(body) :
    classRun(body, lit(body, {p}, <<"/","m","e","d","i","a","_">>), LowerHex, 40, 40) # {}

\* /\/etc.clientlibs\//
matchClientlibs(body) ==
  \E p \in 0..Len(body) :
    lit(body,
        { q + 1 : q \in { q \in lit(body, {p}, <<"/","e","t","c">>) :
                            q < Len(body) /\ body[q + 1] \notin LineTerminators } },
        <<"c","l","i","e","n","t","l","i","b","s","/">>) # {}

\* /\/\.rum\/@adobe\/helix-rum-js/
matchRum(body) ==
  \E p \in 0..Len(body) : lit(body, {p}, <<"/",".","r","u","m","/","@","a","d","o","b","e","/","h","e","l","i","x","-","r","u","m","-","j","s">>) # {}

\* a classifier that returns a record without a body as it came
enrichHTMLBodyOnly(row) ==
  IF Excluded(row) THEN row
  ELSE IF ~Has(row, "HTTPBody") \/ Falsy(row["HTTPBody"])
       THEN row
  ELSE IF matchMedia(row["HTTPBody"])
       THEN Delete(Delete(Put(row, "Source", "Helix"), "HTTPBody"), "HTTPHeaders")
  ELSE IF matchClientlibs(row["HTTPBody"])
       THEN Delete(Delete(Put(row, "Source", "AEM"), "HTTPBody"), "HTTPHeaders")
  ELSE IF matchRum(row["HTTPBody"])
       THEN Put(row, "Source", "RUM")
  ELSE Put(row, "Source", "Other")

enrichHTML(row) ==
  IF Excluded(row) THEN row
  ELSE IF ~Has(row, "HTTPBody") \/ Falsy(row["HTTPBody"])
       THEN Put(row, "Source", "Unverified")
  ELSE IF matchMedia(row["HTTPBody"])
       THEN Delete(Delete(Put(row, "Source", "Helix"), "HTTPBody"), "HTTPHeaders")
  ELSE IF matchClientlibs(row["HTTPBody"])
       THEN Delete(Delete(Put(row, "Source", "AEM"), "HTTPBody"), "HTTPHeaders")
  ELSE IF matchRum(row["HTTPBody"])
       THEN Put(row, "Source", "RUM")
  ELSE Put(row, "Source", "Other")

(***************************************************************************)
(* Inputs: the Domain strings of the rows, and what the resolver and the   *)
(* HTTPS servers can answer.                                               *)
(***************************************************************************)
HeaderLine == [Domain |-> <<"D","o","m","a","i","n">>]

Domains ==
  { <<"w","w","w",".","b",".","c","o","m",".">>,
    <<"c",".","c","o","m",":","8","0","/","x">>,
    <<"1",".","1",".","1",".","1">>,
    <<"a",".","g","i","t","h","u","b",".","c","o","m">>,
    <<".">> }

MoreDomains ==
  { <<"x",".","w","o","r","k","e","r","s",".","d","e","v">>,
    <<"c","o","m">>,
    <<"w","w","w",".","b",".","c","o",".","u","k">>,
    <<"1",".","1",".","1",".","2","5","6">>,
    <<":",":","1">>,
    <<"1",".","1",".","1",".","1","/","x">> }

NormAlphabet == {"a", "1", ".", ":", "/"}

RECURSIVE Strings(_, _)
Strings(alphabet, n) ==
  IF n = 0 THEN {<<>>}
  ELSE Strings(alphabet, n - 1)
         \cup { Append(s, c) : s \in Strings(alphabet, n - 1), c \in alphabet }

RECURSIVE Lists(_, _)
Lists(S, n) ==
  IF n = 0 THEN {<<>>}
  ELSE Lists(S, n - 1) \cup { Append(l, x) : l \in Lists(S, n - 1), x \in S }

CnameMagento == [type |-> "CNAME", value |-> <<"s",".","m","a","g","e","n","t","o","c","l","o","u","d",".","m","a","p",".","f","a","s","t","l","y",".","n","e","t">>]
CnameCloudfront == [type |-> "CNAME", value |-> <<"d",".","c","l","o","u","d","f","r","o","n","t",".","n","e","t">>]
CnameOther == [type |-> "CNAME", value |-> <<"e",".","e","x","a","m","p","l","e",".","o","r","g">>]
AddressRecord == [type |-> "A", address |-> <<"1",".","2",".","3",".","4">>]

DnsRecords == {CnameMagento, CnameCloudfront, CnameOther, AddressRecord}

DnsSmall == { <<CnameOther, CnameCloudfront>> }
DnsRich == Lists(DnsRecords, MaxRecords)

TextHtml == <<"t","e","x","t","/","h","t","m","l">>
TextHtmlUtf8 == <<"t","e","x","t","/","h","t","m","l",";"," ","c","h","a","r","s","e","t","=","u","t","f","-","8">>
ApplicationJson == <<"a","p","p","l","i","c","a","t","i","o","n","/","j","s","o","n">>

Headers(servers, types) ==
  { ("server" :> s) @@ ("content-type" :> c) : s \in servers, c \in types }
    \cup { ("server" :> s) : s \in servers }
    \cup { ("content-type" :> c) : c \in types }
    \cup { <<>> }

HttpSmall ==
  { [status |-> 301, headers |-> ("server" :> ServerCloudflare)],
    [status |-> 200, headers |-> ("content-type" :> TextHtmlUtf8)] }

HttpRich ==
  [ status : {200, 301},
    headers : Headers({ServerCloudflare, CDNCloudflare, <<"n","g","i","n","x">>},
                      {TextHtml, TextHtmlUtf8, ApplicationJson}) ]

MediaRef == <<"/","m","e","d","i","a","_","0","1","2","3","4","5","6","7","8","9","a","b","c","d","e","f","0","1","2","3","4","5","6","7","8","9","a","b","c","d","e","f","0","1","2","3","4","5","6","7">>
ShortMediaRef == <<"/","m","e","d","i","a","_","0","1","2","3","4","5","6","7","8","9","a","b","c","d","e","f","0","1","2","3","4","5","6","7","8","9","a","b","c","d","e","f","0","1","2","3","4","5","6","/">>
ClientlibsRef == <<"/","e","t","c",".","c","l","i","e","n","t","l","i","b","s","/">>
WildClientlibsRef == <<"/","e","t","c","-","c","l","i","e","n","t","l","i","b","s","/">>
RumRef == <<"/",".","r","u","m","/","@","a","d","o","b","e","/","h","e","l","i","x","-","r","u","m","-","j","s">>
Markup == <<"<","p",">">>

Fragments == {MediaRef, ShortMediaRef, ClientlibsRef, WildClientlibsRef, RumRef, Markup}

RECURSIVE concat(_)
concat(l) == IF l = <<>> THEN <<>> ELSE l[1] \o concat(Tail(l))

BodySmall == { <<>>, MediaRef, ClientlibsRef, RumRef, Markup }
BodyRich == { concat(l) : l \in Lists(Fragments, MaxFragments) }

(***************************************************************************)
(* The state machine.  csvData is the array of rows; stage and idx are the *)
(* position of the top-level code in its chain of Array.map calls, sub the *)
(* statement of flagPorts the current row is at; pc[i] is where the        *)
(* promise chain of row i stands once the asynchronous part has begun.     *)
(* origin[i] is the input position of the row now at position i,           *)
(* dnsQueries and httpRequests count the network operations issued per     *)
(* row, original is the input after the dropped first line, and cleaned    *)
(* is the array Promise.all resolves to.  received[i] holds what the       *)
(* network has answered to row i so far.                                   *)
(***************************************************************************)
Rows == 1..Len(csvData)

\* nothing answered yet
NoResponse == [f \in {} |-> Undefined]

InitWith(rows) ==
  /\ csvData = <<HeaderLine>> \o rows
  /\ original = rows
  /\ stage = "shift"
  /\ idx = 1
  /\ sub = "port"
  /\ origin = [i \in 1..Len(rows) |-> i]
  /\ pc = [i \in 1..Len(rows) |-> "pending"]
  /\ dnsQueries = [i \in 1..Len(rows) |-> 0]
  /\ httpRequests = [i \in 1..Len(rows) |-> 0]
  /\ cleaned = <<>>
  /\ received = [i \in 1..Len(rows) |-> NoResponse]

Init ==
  \E rows \in Lists({ [Domain |-> d] : d \in Domains }, MaxRows) \ {<<>>} : InitWith(rows)

InitNorm ==
  \E d \in Strings(NormAlphabet, MaxLen) \cup Domains \cup MoreDomains :
    InitWith(<<[Domain |-> d]>>)

InitOne ==
  \E d \in { d \in Domains \cup MoreDomains : indexOf(d, ":") = -1 } :
    InitWith(<<[Domain |-> d]>>)

\* csvData.shift(): drop the first line
DropFirstLine ==
  /\ stage = "shift"
  /\ csvData' = Tail(csvData)
  /\ stage' = "cleanupTrailingDot"
  /\ UNCHANGED <<idx, sub, pc, dnsQueries, httpRequests, cleaned, original, origin, received>>

\* one call of the callback of an Array.map over csvData
MapStep(next) ==
  /\ idx' = IF idx = Len(csvData) THEN 1 ELSE idx + 1
  /\ stage' = IF idx = Len(csvData) THEN next ELSE stage

CleanupTrailingDot ==
  /\ stage = "cleanupTrailingDot"
  /\ csvData' = [csvData EXCEPT ![idx] = cleanupTrailingDot(@)]
  /\ MapStep("flagPorts")
  /\ UNCHANGED <<sub, pc, dnsQueries, httpRequests, cleaned, original, origin, received>>

FlagPortsPort ==
  /\ stage = "flagPorts"
  /\ sub = "port"
  /\ csvData' = [csvData EXCEPT ![idx] = portCheck(@)]
  /\ sub' = "path"
  /\ UNCHANGED <<stage, idx, pc, dnsQueries, httpRequests, cleaned, original, origin, received>>

FlagPortsPath ==
  /\ stage = "flagPorts"
  /\ sub = "path"
  /\ csvData' = [csvData EXCEPT ![idx] = pathCheck(@)]
  /\ sub' = "port"
  /\ MapStep("flagIP")
  /\ UNCHANGED <<pc, dnsQueries, httpRequests, cleaned, original, origin, received>>

FlagIP ==
  /\ stage = "flagIP"
  /\ csvData' = [csvData EXCEPT ![idx] = flagIP(@)]
  /\ MapStep("flagParent")
  /\ UNCHANGED <<sub, pc, dnsQueries, httpRequests, cleaned, original, origin, received>>

FlagParent ==
  /\ stage = "flagParent"
  /\ csvData' = [csvData EXCEPT ![idx] = flagParent(@)]
  /\ MapStep("flagDev")
  /\ UNCHANGED <<sub, pc, dnsQueries, httpRequests, cleaned, original, origin, received>>

FlagDev ==
  /\ stage = "flagDev"
  /\ csvData' = [csvData EXCEPT ![idx] = flagDev(@)]
  /\ MapStep("sort")
  /\ UNCHANGED <<sub, pc, dnsQueries, httpRequests, cleaned, original, origin, received>>

Sort ==
  /\ stage = "sort"
  /\ csvData' = sort(csvData)
  /\ origin' = [k \in Rows |-> origin[sortOrder(csvData)[k]]]
  /\ stage' = "enrichDNS"
  /\ UNCHANGED <<idx, sub, pc, dnsQueries, httpRequests, cleaned, original, received>>

\* the synchronous part of enrichDNS, called by .map(enrichDNS): an excluded
\* row is returned at once, otherwise the query is issued
EnrichDNS ==
  /\ stage = "enrichDNS"
  /\ IF Excluded(csvData[idx])
     THEN /\ pc' = [pc EXCEPT ![idx] = "enrichHTTPS"]
          /\ UNCHANGED dnsQueries
     ELSE /\ pc' = [pc EXCEPT ![idx] = "resolveAny"]
          /\ dnsQueries' = [dnsQueries EXCEPT ![idx] = @ + 1]
  /\ MapStep("async")
  /\ UNCHANGED <<csvData, sub, httpRequests, cleaned, original, origin, received>>

\* dns.resolveAny resolves
ResolveOK(i, answers) ==
  /\ stage = "async"
  /\ pc[i] = "resolveAny"
  /\ \E a \in answers :
       /\ csvData' = [csvData EXCEPT ![i] = Put(@, "DNS", a)]
       /\ received' = [received EXCEPT ![i] = Put(@, "dns", a)]
  /\ pc' = [pc EXCEPT ![i] = "enrichHTTPS"]
  /\ UNCHANGED <<stage, idx, sub, dnsQueries, httpRequests, cleaned, original, origin>>

\* a catch that also stores an empty answer
ResolveFailEmptyAnswer(i) ==
  /\ stage = "async"
  /\ pc[i] = "resolveAny"
  /\ csvData' = [csvData EXCEPT ![i] = Put(Put(@, "DNSError", "ENOTFOUND"), "DNS", <<>>)]
  /\ received' = [received EXCEPT ![i] = Put(@, "dnsError", "ENOTFOUND")]
  /\ pc' = [pc EXCEPT ![i] = "enrichHTTPS"]
  /\ UNCHANGED <<stage, idx, sub, dnsQueries, httpRequests, cleaned, original, origin>>

\* a catch that writes to a row the chains share
ResolveFailFirstRow(i) ==
  /\ stage = "async"
  /\ pc[i] = "resolveAny"
  /\ csvData' = [csvData EXCEPT ![1] = Put(@, "DNSError", "ENOTFOUND")]
  /\ received' = [received EXCEPT ![i] = Put(@, "dnsError", "ENOTFOUND")]
  /\ pc' = [pc EXCEPT ![i] = "enrichHTTPS"]
  /\ UNCHANGED <<stage, idx, sub, dnsQueries, httpRequests, cleaned, original, origin>>

\* dns.resolveAny rejects
ResolveFail(i) ==
  /\ stage = "async"
  /\ pc[i] = "resolveAny"
  /\ csvData' = [csvData EXCEPT ![i] = Put(@, "DNSError", "ENOTFOUND")]
  /\ received' = [received EXCEPT ![i] = Put(@, "dnsError", "ENOTFOUND")]
  /\ pc' = [pc EXCEPT ![i] = "enrichHTTPS"]
  /\ UNCHANGED <<stage, idx, sub, dnsQueries, httpRequests, cleaned, original, origin>>

\* enrichHTTPS up to its first await of the network: new URL throws outside
\* the try block, which rejects the chain and with it Promise.all
EnrichHTTPS(i) ==
  /\ stage = "async"
  /\ pc[i] = "enrichHTTPS"
  /\ IF Excluded(csvData[i])
     THEN /\ pc' = [pc EXCEPT ![i] = "flagCDN"]
          /\ UNCHANGED <<stage, httpRequests>>
     ELSE IF ~validURL(csvData[i]["Domain"])
     THEN /\ pc' = [pc EXCEPT ![i] = "rejected"]
          /\ stage' = "crashed"
          /\ UNCHANGED httpRequests
     ELSE /\ pc' = [pc EXCEPT ![i] = "fetch"]
          /\ httpRequests' = [httpRequests EXCEPT ![i] = @ + 1]
          /\ UNCHANGED stage
  /\ UNCHANGED <<csvData, idx, sub, dnsQueries, cleaned, original, origin, received>>

wantsBody(res) ==
  /\ res.status = 200
  /\ Has(res.headers, "content-type")
  /\ startsWith(res.headers["content-type"], <<"t","e","x","t","/","h","t","m","l">>)

\* fetch resolves with the response head
FetchOK(i, responses) ==
  /\ stage = "async"
  /\ pc[i] = "fetch"
  /\ \E res \in responses :
       /\ csvData' = [csvData EXCEPT ![i] =
                        Put(Put(@, "HTTPStatus", res.status), "HTTPHeaders", res.headers)]
       /\ pc' = [pc EXCEPT ![i] = IF wantsBody(res) THEN "text" ELSE "flagCDN"]
       /\ received' = [received EXCEPT ![i] = Put(@, "res", res)]
  /\ UNCHANGED <<stage, idx, sub, dnsQueries, httpRequests, cleaned, original, origin>>

\* fetch rejects
FetchFail(i) ==
  /\ stage = "async"
  /\ pc[i] = "fetch"
  /\ csvData' = [csvData EXCEPT ![i] = Put(@, "HTTPError", "fetch failed")]
  /\ received' = [received EXCEPT ![i] = Put(@, "httpError", "fetch failed")]
  /\ pc' = [pc EXCEPT ![i] = "flagCDN"]
  /\ UNCHANGED <<stage, idx, sub, dnsQueries, httpRequests, cleaned, original, origin>>

\* res.text() resolves
TextOK(i, bodies) ==
  /\ stage = "async"
  /\ pc[i] = "text"
  /\ \E b \in bodies :
       /\ csvData' = [csvData EXCEPT ![i] = Put(@, "HTTPBody", b)]
       /\ received' = [received EXCEPT ![i] = Put(@, "body", b)]
  /\ pc' = [pc EXCEPT ![i] = "flagCDN"]
  /\ UNCHANGED <<stage, idx, sub, dnsQueries, httpRequests, cleaned, original, origin>>

\* res.text() rejects
TextFail(i) ==
  /\ stage = "async"
  /\ pc[i] = "text"
  /\ csvData' = [csvData EXCEPT ![i] = Put(@, "HTTPError", "terminated")]
  /\ received' = [received EXCEPT ![i] = Put(@, "httpError", "terminated")]
  /\ pc' = [pc EXCEPT ![i] = "flagCDN"]
  /\ UNCHANGED <<stage, idx, sub, dnsQueries, httpRequests, cleaned, original, origin>>

FlagCDN(i) ==
  /\ stage = "async"
  /\ pc[i] = "flagCDN"
  /\ csvData' = [csvData EXCEPT ![i] = flagCDN(@)]
  /\ pc' = [pc EXCEPT ![i] = "enrichHTML"]
  /\ UNCHANGED <<stage, idx, sub, dnsQueries, httpRequests, cleaned, original, origin, received>>

EnrichHTML(i) ==
  /\ stage = "async"
  /\ pc[i] = "enrichHTML"
  /\ csvData' = [csvData EXCEPT ![i] = enrichHTML(@)]
  /\ pc' = [pc EXCEPT ![i] = "done"]
  /\ UNCHANGED <<stage, idx, sub, dnsQueries, httpRequests, cleaned, original, origin, received>>

\* Promise.all resolves once every chain has
Join ==
  /\ stage = "async"
  /\ \A i \in Rows : pc[i] = "done"
  /\ cleaned' = csvData
  /\ stage' = "done"
  /\ UNCHANGED <<csvData, idx, sub, pc, dnsQueries, httpRequests, original, origin, received>>

Next ==
  \/ DropFirstLine
  \/ CleanupTrailingDot
  \/ FlagPortsPort
  \/ FlagPortsPath
  \/ FlagIP
  \/ FlagParent
  \/ FlagDev
  \/ Sort
  \/ EnrichDNS
  \/ \E i \in Rows : ResolveOK(i, DnsSmall)
  \/ \E i \in Rows : ResolveFail(i)
  \/ \E i \in Rows : EnrichHTTPS(i)
  \/ \E i \in Rows : FetchOK(i, HttpSmall)
  \/ \E i \in Rows : FetchFail(i)
  \/ \E i \in Rows : TextOK(i, BodySmall)
  \/ \E i \in Rows : TextFail(i)
  \/ \E i \in Rows : FlagCDN(i)
  \/ \E i \in Rows : EnrichHTML(i)
  \/ Join

NextCDN ==
  \/ DropFirstLine
  \/ CleanupTrailingDot
  \/ FlagPortsPort
  \/ FlagPortsPath
  \/ FlagIP
  \/ FlagParent
  \/ FlagDev
  \/ Sort
  \/ EnrichDNS
  \/ \E i \in Rows : ResolveOK(i, DnsRich)
  \/ \E i \in Rows : ResolveFail(i)
  \/ \E i \in Rows : EnrichHTTPS(i)
  \/ \E i \in Rows : FetchOK(i, HttpRich)
  \/ \E i \in Rows : FetchFail(i)
  \/ \E i \in Rows : TextOK(i, BodySmall)
  \/ \E i \in Rows : TextFail(i)
  \/ \E i \in Rows : FlagCDN(i)
  \/ \E i \in Rows : EnrichHTML(i)
  \/ Join

NextHTML ==
  \/ DropFirstLine
  \/ CleanupTrailingDot
  \/ FlagPortsPort
  \/ FlagPortsPath
  \/ FlagIP
  \/ FlagParent
  \/ FlagDev
  \/ Sort
  \/ EnrichDNS
  \/ \E i \in Rows : ResolveOK(i, DnsSmall)
  \/ \E i \in Rows : ResolveFail(i)
  \/ \E i \in Rows : EnrichHTTPS(i)
  \/ \E i \in Rows : FetchOK(i, HttpSmall)
  \/ \E i \in Rows : FetchFail(i)
  \/ \E i \in Rows : TextOK(i, BodyRich)
  \/ \E i \in Rows : TextFail(i)
  \/ \E i \in Rows : FlagCDN(i)
  \/ \E i \in Rows : EnrichHTML(i)
  \/ Join

Spec == Init /\ [][Next]_vars

SpecNorm == InitNorm /\ [][Next]_vars

SpecCDN == InitOne /\ [][NextCDN]_vars

SpecHTML == InitOne /\ [][NextHTML]_vars

\* Spec with the scheduling of the event loop: a callback that is ready is
\* run, and every DNS query and HTTP request returns or fails
LiveSpec == Init /\ [][Next]_vars /\ WF_vars(Next)

(***************************************************************************)
(* Properties.                                                             *)
(***************************************************************************)
\* the Domain the row now at position i was read with
inputDomain(i) == original[origin[i]]["Domain"]

EnrichmentFields ==
  {"DNS", "DNSError", "HTTPStatus", "HTTPHeaders", "HTTPBody", "HTTPError", "CDN"}

\* C1: once a stage has set Source to 'Excluded', every later operation
\* (the path check of flagPorts, flagIP, flagParent, flagDev, the sort and
\* the four asynchronous stages) leaves every field of that record as it is,
\* Comment included.
C1_ExcludedFrozen ==
  [][stage # "shift" =>
       \A i \in Rows, k \in Rows :
         (origin'[k] = origin[i] /\ Excluded(csvData[i])) => csvData'[k] = csvData[i]]_vars

\* C2: in the final output no record carries a DNS field or an HTTPBody
\* field, whatever its Source.
C2_NoTransientFields ==
  stage = "done" =>
    \A i \in 1..Len(cleaned) : ~Has(cleaned[i], "DNS") /\ ~Has(cleaned[i], "HTTPBody")

\* C2, amended: in the final output no record carries a DNS field, and no
\* record whose Source is Excluded, Helix or AEM carries an HTTPBody field;
\* the HTTPBody that remains belongs to a RUM or Other record, or is the
\* empty body of an Unverified one.
C2_TransientFieldsAmended ==
  stage = "done" =>
    \A i \in 1..Len(cleaned) :
      /\ ~Has(cleaned[i], "DNS")
      /\ Has(cleaned[i], "HTTPBody") =>
           \/ cleaned[i]["Source"] \in {"RUM", "Other"}
           \/ cleaned[i]["Source"] = "Unverified" /\ cleaned[i]["HTTPBody"] = <<>>

C2_Witness ==
  /\ stage = "done"
  /\ \E i \in 1..Len(cleaned) :
       /\ cleaned[i]["Source"] = "AEM"
       /\ Has(cleaned[i], "CDN")
       /\ ~Has(cleaned[i], "DNS")
       /\ ~Has(cleaned[i], "HTTPBody")
  /\ \E i \in 1..Len(cleaned) : Excluded(cleaned[i])

\* C3: every non-excluded record whose DNS resolution failed ends with
\* CDN = 'DNS Error'.
C3_DNSErrorSentinel ==
  stage = "done" =>
    \A i \in 1..Len(cleaned) :
      (~Excluded(cleaned[i]) /\ Has(cleaned[i], "DNSError")) =>
        Get(cleaned[i], "CDN") = CDNDNSError

\* C4: whatever the rows and their outcomes, the run is never aborted and
\* ends with exactly one output record per input record.
C4_NoDrop ==
  /\ stage # "crashed"
  /\ stage = "done" =>
       /\ Len(cleaned) = Len(original)
       /\ \A n \in 1..Len(original) : \E i \in 1..Len(cleaned) : origin[i] = n

normalize(row) == flagPorts(cleanupTrailingDot(row))

Normalized == stage \notin {"shift", "cleanupTrailingDot", "flagPorts"}

\* C5: normalisation is idempotent on Domain: applied to its own output it
\* leaves Domain unchanged, for every domain string.
C5_Idempotent ==
  Normalized =>
    \A i \in Rows : normalize(csvData[i])["Domain"] = csvData[i]["Domain"]

\* the inputs whose normalised Domain still ends in a dot: two trailing dots
\* and no '/', or a dot just before the first '/'
leavesDot(d) ==
  \/ indexOf(d, "/") = -1 /\ endsWith(d, <<".", ".">>)
  \/ indexOf(d, "/") > 0 /\ d[indexOf(d, "/")] = "."

\* C5, amended: normalisation is idempotent on Domain for every domain
\* string that neither ends in two dots without holding a '/' nor has a dot
\* just before its first '/'.
C5_IdempotentAmended ==
  Normalized =>
    \A i \in Rows :
      ~leavesDot(inputDomain(i)) =>
        normalize(csvData[i])["Domain"] = csvData[i]["Domain"]

C5_Witness ==
  /\ stage = "flagIP"
  /\ \E i \in Rows :
       /\ ~leavesDot(inputDomain(i))
       /\ endsWith(inputDomain(i), <<".">>)
       /\ indexOf(inputDomain(i), "/") > -1
       /\ csvData[i]["Domain"] # inputDomain(i)

\* C6: every record whose Domain holds ':' ends with Source = 'Excluded' and
\* the port-exclusion comment, also when the Domain holds '/' as well.
C6_PortPrecedence ==
  stage = "done" =>
    \A i \in 1..Len(cleaned) :
      indexOf(inputDomain(i), ":") > -1 =>
        /\ Excluded(cleaned[i])
        /\ cleaned[i]["Comment"] = PortComment

\* C7: for a record excluded before enrichment starts no DNS query and no
\* HTTPS request is ever issued and no enrichment field is ever set; a
\* record whose Domain matches the IPv4/IPv6 pattern is Excluded and has
\* neither Parent nor TLD.
C7_ExcludedNotEnriched ==
  /\ stage \in {"enrichDNS", "async", "done", "crashed"} =>
       \A i \in Rows :
         Excluded(csvData[i]) =>
           /\ dnsQueries[i] = 0
           /\ httpRequests[i] = 0
           /\ (DOMAIN csvData[i]) \cap EnrichmentFields = {}
  /\ stage \in {"flagDev", "sort", "enrichDNS", "async", "done", "crashed"} =>
       \A i \in Rows :
         (ipv4Regex(csvData[i]["Domain"]) \/ ipv6Regex(csvData[i]["Domain"])) =>
           /\ Excluded(csvData[i])
           /\ ~Has(csvData[i], "Parent")
           /\ ~Has(csvData[i], "TLD")

C7_Witness ==
  /\ stage = "done"
  /\ \E i \in Rows :
       /\ ipv4Regex(cleaned[i]["Domain"])
       /\ cleaned[i]["Comment"] = IPComment
       /\ dnsQueries[i] = 0
       /\ httpRequests[i] = 0

\* C8: in the final output records with a present Parent are in
\* non-decreasing Parent order, records without a Parent come after all of
\* them, and records with equal or absent Parent keep their input order,
\* whatever the order in which the chains completed.
C8_Sorted ==
  stage = "done" =>
    \A i \in 1..Len(cleaned), j \in 1..Len(cleaned) :
      i < j =>
        LET l == Get(cleaned[i], "Parent")
            r == Get(cleaned[j], "Parent")
        IN /\ Falsy(l) => Falsy(r)
           /\ (~Falsy(l) /\ ~Falsy(r)) => localeCompare(l, r) <= 0
           /\ (l = r \/ (Falsy(l) /\ Falsy(r))) => origin[i] < origin[j]

C8_Witness ==
  /\ stage = "done"
  /\ \E i \in 1..Len(cleaned), j \in 1..Len(cleaned) :
       /\ i < j
       /\ origin[i] > origin[j]
       /\ ~Falsy(Get(cleaned[i], "Parent"))
       /\ Has(cleaned[i], "DNSError")

\* the positions of the CNAMEs whose target ends with a pattern of the table
matchingCnames(cn) ==
  { k \in 1..Len(cn) : \E p \in 1..Len(cdns) : endsWith(cn[k].value, cdns[p].pattern) }

\* the table entries whose pattern the target ends with
matchingEntries(value) == { p \in 1..Len(cdns) : endsWith(value, cdns[p].pattern) }

least(S) == CHOOSE x \in S : \A y \in S : x <= y

\* C9: for a non-excluded record with resolved DNS, flagCDN sets CDN from the
\* first CNAME, in resolver order, whose target ends with a pattern of the
\* table, whatever the later CNAMEs and the server header are, and from the
\* earliest table entry that is a suffix of that target: a target ending in
\* '.magentocloud.map.fastly.net' gives 'Adobe Commerce'.
C9_FirstCnameWins ==
  [][\A i \in DOMAIN pc :
       (/\ stage = "async"
        /\ pc[i] = "flagCDN"
        /\ pc'[i] = "enrichHTML"
        /\ ~Excluded(csvData[i])
        /\ Has(csvData[i], "DNS")
        /\ matchingCnames(cnames(csvData[i]["DNS"])) # {}) =>
         LET cn == cnames(csvData[i]["DNS"])
             first == cn[least(matchingCnames(cn))].value
         IN /\ csvData'[i]["CDN"] = cdns[least(matchingEntries(first))].cdn
            /\ endsWith(first, <<".","m","a","g","e","n","t","o","c","l","o","u","d",".","m","a","p",".","f","a","s","t","l","y",".","n","e","t">>) =>
                 csvData'[i]["CDN"] = <<"A","d","o","b","e"," ","C","o","m","m","e","r","c","e">>]_vars

C9_Witness ==
  \E i \in DOMAIN pc :
    /\ stage = "done"
    /\ ~Excluded(csvData[i])
    /\ Get(csvData[i], "CDN") = <<"A","d","o","b","e"," ","C","o","m","m","e","r","c","e">>
    /\ Has(csvData[i], "HTTPHeaders")
    /\ Get(csvData[i]["HTTPHeaders"], "server") = ServerCloudflare

\* C10: for a non-excluded record with a captured body, enrichHTML sets
\* Source to the first of Helix, AEM, RUM whose fingerprint the body holds,
\* else Other, and deletes HTTPBody and HTTPHeaders exactly when the outcome
\* is Helix or AEM.
C10_ContentPrecedence ==
  [][\A i \in DOMAIN pc :
       (/\ stage = "async"
        /\ pc[i] = "enrichHTML"
        /\ pc'[i] = "done"
        /\ ~Excluded(csvData[i])
        /\ Has(csvData[i], "HTTPBody")) =>
         LET body == csvData[i]["HTTPBody"]
             expected == IF matchMedia(body) THEN "Helix"
                         ELSE IF matchClientlibs(body) THEN "AEM"
                         ELSE IF matchRum(body) THEN "RUM"
                         ELSE "Other"
         IN /\ csvData'[i]["Source"] = expected
            /\ Has(csvData'[i], "HTTPBody") <=> expected \in {"RUM", "Other"}
            /\ Has(csvData'[i], "HTTPHeaders") <=> expected \in {"RUM", "Other"}]_vars

\* C11: the output is produced only once every record's chain has finished
\* its last stage, and, every DNS query and HTTP request returning or failing,
\* the pipeline eventually produces its output for every input, whichever
\* records' queries fail.
C11_Completes ==
  /\ [](stage = "done" => \A i \in DOMAIN pc : pc[i] = "done")
  /\ <>(stage = "done")

\* a record's query has returned or failed
dnsReturned(row) == Has(row, "DNS") \/ Has(row, "DNSError")

\* a record's request has returned or failed
httpReturned(row) == Has(row, "HTTPStatus") \/ Has(row, "HTTPError")

\* C12: for every non-excluded record, in every interleaving, exactly one
\* DNS query and exactly one HTTPS request have been issued when the run
\* ends, neither is ever issued a second time, the HTTPS request is issued
\* only after the record's DNS query has returned or failed, CDN inference
\* runs only after its HTTP fetch has, and content classification only after
\* its CDN inference.
C12_OneQueryInOrder ==
  /\ [](\A i \in DOMAIN pc :
          (stage \in {"done", "crashed"} /\ ~Excluded(csvData[i])) =>
            dnsQueries[i] = 1 /\ httpRequests[i] = 1)
  /\ [][\A i \in DOMAIN pc :
          (stage \in {"enrichDNS", "async"} /\ ~Excluded(csvData[i])) =>
            /\ dnsQueries'[i] # dnsQueries[i] => dnsQueries[i] = 0
            /\ httpRequests'[i] # httpRequests[i] =>
                 httpRequests[i] = 0 /\ dnsReturned(csvData[i])
            /\ (pc[i] = "flagCDN" /\ pc'[i] # "flagCDN") =>
                 httpReturned(csvData[i]) /\ pc'[i] = "enrichHTML"
            /\ (pc[i] # "done" /\ pc'[i] = "done") => pc[i] = "enrichHTML"]_vars

\* C13: in every state of a record, HTTPError present means HTTPStatus,
\* HTTPHeaders and HTTPBody are all absent, also when the failure is that of
\* reading the body after the status and the headers were received.
C13_ErrorExcludesResponse ==
  \A i \in 1..Len(csvData) :
    Has(csvData[i], "HTTPError") =>
      /\ ~Has(csvData[i], "HTTPStatus")
      /\ ~Has(csvData[i], "HTTPHeaders")
      /\ ~Has(csvData[i], "HTTPBody")

\* the record's response carries the header server: cloudflare, exactly
serverIsCloudflare(row) ==
  /\ Has(row, "HTTPHeaders")
  /\ Get(row["HTTPHeaders"], "server") = <<"c","l","o","u","d","f","l","a","r","e">>

\* C14: for a non-excluded record with resolved DNS none of whose CNAME
\* targets ends with a pattern of the table, flagCDN sets CDN to 'Cloudflare'
\* if the server header is exactly 'cloudflare'; otherwise, if there is a
\* CNAME, to 'Unknown CDN ' followed by the target of the first CNAME in
\* resolver order; otherwise CDN stays without a value.
C14_Fallback ==
  [][\A i \in DOMAIN pc :
       (/\ stage = "async"
        /\ pc[i] = "flagCDN"
        /\ pc'[i] = "enrichHTML"
        /\ ~Excluded(csvData[i])
        /\ Has(csvData[i], "DNS")
        /\ matchingCnames(cnames(csvData[i]["DNS"])) = {}) =>
         LET cn == cnames(csvData[i]["DNS"])
             cdn == Get(csvData'[i], "CDN")
         IN IF serverIsCloudflare(csvData[i])
            THEN cdn = <<"C","l","o","u","d","f","l","a","r","e">>
            ELSE IF cn # <<>>
            THEN cdn = <<"U","n","k","n","o","w","n"," ","C","D","N"," ">> \o cn[1].value
            ELSE Falsy(cdn)]_vars

C14_Witness ==
  \E i \in DOMAIN pc :
    /\ stage = "done"
    /\ ~Excluded(csvData[i])
    /\ Has(csvData[i], "HTTPHeaders")
    /\ Get(csvData[i]["HTTPHeaders"], "server") = <<"C","l","o","u","d","f","l","a","r","e">>
    /\ Get(csvData[i], "CDN") = <<"U","n","k","n","o","w","n"," ","C","D","N"," ">> \o CnameOther.value

\* C15: a non-excluded record ends with Source 'Unverified' exactly when the
\* HTTP enricher captured no body; a record with a captured body, the empty
\* body included, ends with Source Helix, AEM, RUM or Other.
C15_UnverifiedIffNoBody ==
  [][\A i \in DOMAIN pc :
       (/\ stage = "async"
        /\ pc[i] = "enrichHTML"
        /\ pc'[i] = "done"
        /\ ~Excluded(csvData[i])) =>
         /\ Get(csvData'[i], "Source") = "Unverified" <=> ~Has(csvData[i], "HTTPBody")
         /\ Has(csvData[i], "HTTPBody") =>
              Get(csvData'[i], "Source") \in {"Helix", "AEM", "RUM", "Other"}]_vars

\* the record the pipeline makes of one Domain, given what the network
\* answered for it: the stages of the pipeline applied in their order
finalRecord(domain, rec) ==
  LET r0 == flagDev(flagParent(flagIP(flagPorts(cleanupTrailingDot([Domain |-> domain])))))
      r1 == IF Has(rec, "dns") THEN Put(r0, "DNS", rec["dns"])
            ELSE IF Has(rec, "dnsError") THEN Put(r0, "DNSError", rec["dnsError"])
            ELSE r0
      r2 == IF Has(rec, "res")
            THEN Put(Put(r1, "HTTPStatus", rec["res"].status), "HTTPHeaders", rec["res"].headers)
            ELSE r1
      r3 == IF Has(rec, "body") THEN Put(r2, "HTTPBody", rec["body"]) ELSE r2
      r4 == IF Has(rec, "httpError") THEN Put(r3, "HTTPError", rec["httpError"]) ELSE r3
  IN enrichHTML(flagCDN(r4))

\* C16: the final fields of a record are a function of its own input Domain
\* and of the DNS and HTTP responses for that Domain alone: whatever the
\* sibling records, their responses and the interleaving of the chains, the
\* record in the output is the one the stages make of that Domain and those
\* responses.
C16_OwnInputsOnly ==
  stage = "done" =>
    \A i \in 1..Len(cleaned) : cleaned[i] = finalRecord(inputDomain(i), received[i])

C16_Witness ==
  /\ stage = "done"
  /\ Len(cleaned) = 2
  /\ inputDomain(1) = inputDomain(2)
  /\ Has(cleaned[1], "DNSError")
  /\ Has(cleaned[1], "HTTPStatus")
  /\ ~Falsy(Get(cleaned[2], "CDN"))
  /\ Has(cleaned[2], "HTTPError")

\* C17: when the pipeline completes, every output record (the input rows
\* carry no Source) has a Source, one of 'Excluded', 'Unverified', 'Helix',
\* 'AEM', 'RUM', 'Other', and a record that was not excluded before
\* enrichment, that is one for which a DNS query was issued, does not end
\* as 'Excluded'.
C17_SourceAssigned ==
  stage = "done" =>
    \A i \in 1..Len(cleaned) :
      /\ \A k \in 1..Len(original) : ~Has(original[k], "Source")
      /\ Has(cleaned[i], "Source")
      /\ cleaned[i]["Source"] \in {"Excluded", "Unverified", "Helix", "AEM", "RUM", "Other"}
      /\ dnsQueries[i] > 0 => cleaned[i]["Source"] # "Excluded"

C17_Witness ==
  /\ stage = "done"
  /\ \E i \in 1..Len(cleaned), j \in 1..Len(cleaned) :
       /\ cleaned[i]["Source"] = "Excluded"
       /\ dnsQueries[j] > 0
       /\ cleaned[j]["Source"] = "Unverified"
       /\ Has(cleaned[j], "HTTPError")

\* C18: in every state of a record, DNS and DNSError are not both present,
\* and CDN is set only for a record whose DNS query succeeded: a record with
\* DNSError has no CDN, whatever its CNAMEs would be and also when its
\* server header is 'cloudflare'.
C18_CDNOnlyAfterDNS ==
  \A i \in DOMAIN pc :
    stage \in {"async", "done", "crashed"} =>
      /\ ~(Has(csvData[i], "DNS") /\ Has(csvData[i], "DNSError"))
      /\ Has(csvData[i], "CDN") => Has(received[i], "dns")
      /\ Has(csvData[i], "DNSError") => ~Has(csvData[i], "CDN")

C18_Witness ==
  \E i \in DOMAIN pc :
    /\ stage = "done"
    /\ Has(csvData[i], "DNSError")
    /\ serverIsCloudflare(csvData[i])
    /\ ~Has(csvData[i], "CDN")

====
